---- MODULE Spec2Model ----
(***************************************************************************)
(* StudyCoach weekly planner (pages/Planner.tsx).                          *)
(*                                                                         *)
(* The Planner component holds the planning inputs as React state (tasks,  *)
(* hoursPerWeek, studyDays, capOverdue) and recomputes `plan` in an effect *)
(* whenever one of them changes.  The effect is modelled step by step: one *)
(* action per loop iteration, so that every single-hour placement is a     *)
(* state of the model.  The effect is synchronous: no handler runs between *)
(* its steps.  The session is that of a signed-in user.                    *)
(* The summary view (pages/Dashboard.tsx) has its own copy of the scoring  *)
(* and of the allocation; it is modelled as operators on the same inputs.  *)
(*                                                                         *)
(* Representation:                                                         *)
(*   - a calendar date is the number of days between `today` and the date  *)
(*     (today = 0, yesterday = -1); dueDate is <<>> for the empty string   *)
(*     and <<k>> for a date;                                               *)
(*   - a number that need not be an integer (hoursPerWeek, a score) is a   *)
(*     fraction [n |-> numerator, d |-> denominator] with d > 0;           *)
(*   - a task id is the position of the task document in the load order    *)
(*     (Firestore document ids are unique);                                *)
(*   - display-only fields (title, courseName) are left out; a day's       *)
(*     dayLabel is its weekday index, which determines the label.          *)
(***************************************************************************)
EXTENDS Integers, Sequences, FiniteSets, TLC

VARIABLES
    tasks,          \* useState<Task[]>
    hoursPerWeek,   \* useState(10), a fraction
    studyDays,      \* useState<number[]>
    capOverdue,     \* useState(true)
    plan,           \* useState<PlanItem[]>
    loadAllPending, \* loadAll() has been started and has not resolved yet
    run,            \* the current activation of the allocation effect: its
                    \* position (pc) and its local variables
    busyTask,       \* useState<string | null>(null): <<>> is null
    writes          \* the setTaskStatus calls suspended at await updateDoc

vars == <<tasks, hoursPerWeek, studyDays, capOverdue, plan, loadAllPending, run,
          busyTask, writes>>

----------------------------------------------------------------------------
(* Bounds and input sets                                                   *)

\* the longest task list of the bounded input space
MaxTasks == 3

ALL_DAYS == <<0, 1, 2, 3, 4, 5, 6>>

Frac(n, d) == [n |-> n, d |-> d]

Max(a, b) == IF a >= b THEN a ELSE b
Min(a, b) == IF a <= b THEN a ELSE b

----------------------------------------------------------------------------
(* Pure helpers of Planner.tsx                                             *)

\* Math.round(n / d): nearest integer, halves rounded up
MathRound(n, d) == (2 * n + d) \div (2 * d)

clamp(min, v, max) == Max(min, Min(max, v))

\* estimateHours with the quotient truncated instead of rounded
estimateHours_truncated(weight, difficulty) ==
    clamp(1, (weight * difficulty) \div 10, 10)

estimateHours(weight, difficulty) ==
    clamp(1, MathRound(weight * difficulty, 10), 10)

\* daysBetween(a, b): whole days from a to b, both at midnight
daysBetween(a, b) == b - a

today == 0

\* isTaskOverdue counting a task due today as overdue
isTaskOverdue_inclusive(dueDate) ==
    IF dueDate = <<>> THEN FALSE
    ELSE daysBetween(today, dueDate[1]) <= 0

isTaskOverdue(dueDate) ==
    IF dueDate = <<>> THEN FALSE
    ELSE daysBetween(today, dueDate[1]) < 0

\* x || dflt for a number x
OrElse(x, dflt) == IF x = 0 THEN dflt ELSE x

\* scoreTask multiplying by daysUntil instead of by 1 / daysUntil
scoreTask_urgencyInverted(t) ==
    LET daysUntil ==
            IF t.dueDate = <<>> THEN 14
            ELSE LET raw == daysBetween(today, t.dueDate[1])
                 IN IF raw <= 0 THEN 3 ELSE clamp(1, raw, 365)
    IN Frac(OrElse(t.weight, 0) * OrElse(t.difficulty, 3) * daysUntil, 1)

\* scoreTask without the 3-day horizon of a due date that is today or past
scoreTask_noHorizon(t) ==
    LET daysUntil ==
            IF t.dueDate = <<>> THEN 14
            ELSE clamp(1, daysBetween(today, t.dueDate[1]), 365)
    IN Frac(OrElse(t.weight, 0) * OrElse(t.difficulty, 3), daysUntil)

scoreTask(t) ==
    LET daysUntil ==
            IF t.dueDate = <<>> THEN 14
            ELSE LET raw == daysBetween(today, t.dueDate[1])
                 IN IF raw <= 0 THEN 3 ELSE clamp(1, raw, 365)
    IN Frac(OrElse(t.weight, 0) * OrElse(t.difficulty, 3), daysUntil)

\* a < b for fractions
FracLess(a, b) == a.n * b.d < b.n * a.d

FracMax(a, b) == IF FracLess(a, b) THEN b ELSE a

----------------------------------------------------------------------------
(* Array.prototype.sort with the comparator (a, b) => key(b) - key(a),     *)
(* keys[k] being the key of seq[k]: stable, so an element moves behind     *)
(* exactly the elements with a larger key and the earlier elements with an *)
(* equal key.                                                              *)

sortDescending(seq, keys) ==
    LET n == Len(seq)
        before(j) == {k \in 1..n : \/ FracLess(keys[j], keys[k])
                                   \/ /\ k < j
                                      /\ ~FracLess(keys[k], keys[j])}
    IN [p \in 1..n |-> seq[CHOOSE j \in 1..n : Cardinality(before(j)) = p - 1]]

----------------------------------------------------------------------------
(* The allocation effect (useEffect at Planner.tsx:200-312)                *)

EmptyMap == [k \in {} |-> 0]

\* Map.get(key) ?? 0
GetOr0(map, key) == IF key \in DOMAIN map THEN map[key] ELSE 0

\* activeTasks without the status filter
activeTasks_all(ts) == ts

activeTasks(ts) == SelectSeq(ts, LAMBDA t : t.status # "done")

scoreItem(t) ==
    [t |-> t,
     s |-> scoreTask(t),
     hoursNeeded |-> estimateHours(t.weight, t.difficulty),
     overdue |-> isTaskOverdue(t.dueDate)]

\* scoredTasks with a sort that reverses the order of equal scores
scoredTasks_tiesReversed(ts) ==
    LET active == activeTasks(ts)
        n == Len(active)
        items == [k \in 1..n |-> scoreItem(active[n + 1 - k])]
    IN sortDescending(items, [k \in 1..Len(items) |-> items[k].s])

scoredTasks(ts) ==
    LET active == activeTasks(ts)
        items == [k \in 1..Len(active) |-> scoreItem(active[k])]
    IN sortDescending(items, [k \in 1..Len(items) |-> items[k].s])

\* enabledDays without the fallback to the whole week
enabledDays_noFallback(sd) == sd

enabledDays(sd) == IF Len(sd) > 0 THEN sd ELSE <<0, 1, 2, 3, 4, 5, 6>>

\* newDays built from the whole week instead of the enabled days
newDays_everyDay(sd) ==
    [k \in 1..7 |-> [dayLabel |-> k - 1, entries |-> <<>>, totalHours |-> 0]]

newDays(sd) ==
    LET enabled == enabledDays(sd)
    IN [k \in 1..Len(enabled) |->
            [dayLabel |-> enabled[k], entries |-> <<>>, totalHours |-> 0]]

\* initialBudget with a lower limit of 0 hours
initialBudget_fromZero(hpw) == clamp(0, MathRound(hpw.n, hpw.d), 80)

initialBudget(hpw) == clamp(1, MathRound(hpw.n, hpw.d), 80)

\* Infinity, for the cap that is switched off
Infinity == -1

\* Math.floor(budget * 0.6); for the integers 1..80 this is floor(3*budget/5)
overdueCapOf(cap, budget) == IF cap THEN (budget * 3) \div 5 ELSE Infinity

\* canAllocateOverdue with the cap compared inclusively
canAllocateOverdue_inclusive(isOverdue, overdueAllocated, overdueCap) ==
    \/ ~isOverdue
    \/ overdueCap = Infinity
    \/ overdueAllocated <= overdueCap

canAllocateOverdue(isOverdue, overdueAllocated, overdueCap) ==
    \/ ~isOverdue
    \/ overdueCap = Infinity
    \/ overdueAllocated < overdueCap

\* EnterEffect with a day cursor that survives from the previous activation
EnterEffect_keepsCursor(ts, hpw, sd, cap) ==
    LET days0 == newDays(sd)
        budget0 == initialBudget(hpw)
    IN [pc |-> "reserve",
        scored |-> scoredTasks(ts),
        days |-> days0,
        indexByDay |-> [k \in 1..Len(days0) |-> EmptyMap],
        budget |-> budget0,
        overdueCap |-> overdueCapOf(cap, budget0),
        overdueAllocated |-> 0,
        allocatedByTask |-> EmptyMap,
        dayCursor |-> run.dayCursor % Len(days0),
        i |-> 1,
        item |-> 0,
        remaining |-> 0,
        caller |-> "reserve"]

\* the locals of a fresh activation, up to the first loop
EnterEffect(ts, hpw, sd, cap) ==
    LET days0 == newDays(sd)
        budget0 == initialBudget(hpw)
    IN [pc |-> "reserve",
        scored |-> scoredTasks(ts),
        days |-> days0,
        indexByDay |-> [k \in 1..Len(days0) |-> EmptyMap],
        budget |-> budget0,
        overdueCap |-> overdueCapOf(cap, budget0),
        overdueAllocated |-> 0,
        allocatedByTask |-> EmptyMap,
        dayCursor |-> 0,
        i |-> 1,
        item |-> 0,
        remaining |-> 0,
        caller |-> "reserve"]

\* the activation before the effect has run for the first time
NoRun ==
    [pc |-> "start", scored |-> <<>>, days |-> <<>>, indexByDay |-> <<>>,
     budget |-> 0, overdueCap |-> 0, overdueAllocated |-> 0,
     allocatedByTask |-> EmptyMap, dayCursor |-> 0, i |-> 1, item |-> 0,
     remaining |-> 0, caller |-> "reserve"]

\* addOrMergeEntry without the index lookup: every chunk becomes a new entry
addOrMergeEntry_alwaysAppends(s, dayIndex, entry) ==
    LET d == dayIndex + 1
    IN [s EXCEPT !.days[d].entries = Append(@, entry),
                 !.days[d].totalHours = @ + entry.hours]

\* addOrMergeEntry adding to totalHours only when the entry is new
addOrMergeEntry_totalOnAppend(s, dayIndex, entry) ==
    LET d == dayIndex + 1
        key == entry.taskId
        idxMap == s.indexByDay[d]
        day == s.days[d]
    IN IF key \notin DOMAIN idxMap
       THEN [s EXCEPT
                !.indexByDay[d] = idxMap @@ (key :> Len(day.entries)),
                !.days[d].entries = Append(day.entries, entry),
                !.days[d].totalHours = @ + entry.hours]
       ELSE LET e == idxMap[key] + 1
            IN [s EXCEPT
                    !.days[d].entries[e].hours = @ + entry.hours,
                    !.days[d].entries[e].score = FracMax(@, entry.score)]

addOrMergeEntry(s, dayIndex, entry) ==
    LET d == dayIndex + 1
        key == entry.taskId
        idxMap == s.indexByDay[d]
        day == s.days[d]
        merged ==
            IF key \notin DOMAIN idxMap
            THEN [s EXCEPT
                    !.indexByDay[d] = idxMap @@ (key :> Len(day.entries)),
                    !.days[d].entries = Append(day.entries, entry)]
            ELSE LET e == idxMap[key] + 1
                 IN [s EXCEPT
                        !.days[d].entries[e].hours = @ + entry.hours,
                        !.days[d].entries[e].score = FracMax(@, entry.score)]
    IN [merged EXCEPT !.days[d].totalHours = @ + entry.hours]

\* allocContinues without "if (!canAllocateOverdue(item.overdue)) break"
allocContinues_ignoresCap(s) ==
    /\ s.remaining > 0
    /\ s.budget > 0
    /\ Len(s.days) > 0

\* the while condition of allocateHours together with its cap check
allocContinues(s) ==
    /\ s.remaining > 0
    /\ s.budget > 0
    /\ Len(s.days) > 0
    /\ canAllocateOverdue(s.scored[s.item].overdue, s.overdueAllocated, s.overdueCap)

\* the addOrMergeEntry call of allocateHours: one chunk on the cursor's day
placeEntry(s) ==
    LET item == s.scored[s.item]
    IN addOrMergeEntry(s, s.dayCursor,
            [taskId |-> item.t.id,
             hours |-> Min(1, s.remaining),
             dueDate |-> item.t.dueDate,
             score |-> item.s,
             overdue |-> item.overdue,
             status |-> item.t.status])

\* placeChunk without "budget -= chunk"
placeChunk_keepsBudget(s) ==
    LET item == s.scored[s.item]
        chunk == Min(1, s.remaining)
    IN [placeEntry(s) EXCEPT
            !.remaining = @ - chunk,
            !.overdueAllocated = IF item.overdue THEN @ + chunk ELSE @,
            !.allocatedByTask =
                [k \in DOMAIN @ \cup {item.t.id} |->
                    IF k = item.t.id THEN GetOr0(@, k) + chunk ELSE @[k]],
            !.dayCursor = (@ + 1) % Len(s.days)]

\* placeChunk without "dayCursor = (dayCursor + 1) % days.length"
placeChunk_keepsCursor(s) ==
    LET item == s.scored[s.item]
        chunk == Min(1, s.remaining)
    IN [placeEntry(s) EXCEPT
            !.remaining = @ - chunk,
            !.budget = @ - chunk,
            !.overdueAllocated = IF item.overdue THEN @ + chunk ELSE @,
            !.allocatedByTask =
                [k \in DOMAIN @ \cup {item.t.id} |->
                    IF k = item.t.id THEN GetOr0(@, k) + chunk ELSE @[k]]]

\* one iteration of the while loop of allocateHours
placeChunk(s) ==
    LET item == s.scored[s.item]
        chunk == Min(1, s.remaining)
    IN [placeEntry(s) EXCEPT
            !.remaining = @ - chunk,
            !.budget = @ - chunk,
            !.overdueAllocated = IF item.overdue THEN @ + chunk ELSE @,
            !.allocatedByTask =
                [k \in DOMAIN @ \cup {item.t.id} |->
                    IF k = item.t.id THEN GetOr0(@, k) + chunk ELSE @[k]],
            !.dayCursor = (@ + 1) % Len(s.days)]

\* topN taking the first two items only
topN_firstTwo(s) == SubSeq(s.scored, 1, Min(2, Len(s.scored)))

\* scored.slice(0, 3)
topN(s) == SubSeq(s.scored, 1, Min(3, Len(s.scored)))

\* one iteration of "for (const item of topN)", up to its call of allocateHours
reserveIter(s) ==
    LET item == s.scored[s.i]
    IN IF ~canAllocateOverdue(item.overdue, s.overdueAllocated, s.overdueCap)
       THEN [s EXCEPT !.i = @ + 1]
       ELSE IF GetOr0(s.allocatedByTask, item.t.id) >= 1
       THEN [s EXCEPT !.i = @ + 1]
       ELSE [s EXCEPT !.pc = "alloc", !.caller = "reserve",
                      !.item = s.i, !.remaining = 1]

\* fillIter leaving the loop at a task the cap blocks ("break" for "continue")
fillIter_stopsWhenBlocked(s) ==
    LET item == s.scored[s.i]
        already == GetOr0(s.allocatedByTask, item.t.id)
        remainingForTask == Max(0, item.hoursNeeded - already)
    IN IF ~canAllocateOverdue(item.overdue, s.overdueAllocated, s.overdueCap)
       THEN [s EXCEPT !.i = Len(s.scored) + 1]
       ELSE IF remainingForTask <= 0
       THEN [s EXCEPT !.i = @ + 1]
       ELSE [s EXCEPT !.pc = "alloc", !.caller = "fill",
                      !.item = s.i, !.remaining = Min(remainingForTask, s.budget)]

\* fillIter asking for one hour per visit
fillIter_oneHour(s) ==
    LET item == s.scored[s.i]
        already == GetOr0(s.allocatedByTask, item.t.id)
        remainingForTask == Max(0, item.hoursNeeded - already)
    IN IF ~canAllocateOverdue(item.overdue, s.overdueAllocated, s.overdueCap)
       THEN [s EXCEPT !.i = @ + 1]
       ELSE IF remainingForTask <= 0
       THEN [s EXCEPT !.i = @ + 1]
       ELSE [s EXCEPT !.pc = "alloc", !.caller = "fill",
                      !.item = s.i, !.remaining = Min(1, s.budget)]

\* fillIter without "- already": the whole estimate is requested again
fillIter_ignoresAlready(s) ==
    LET item == s.scored[s.i]
        remainingForTask == Max(0, item.hoursNeeded)
    IN IF ~canAllocateOverdue(item.overdue, s.overdueAllocated, s.overdueCap)
       THEN [s EXCEPT !.i = @ + 1]
       ELSE IF remainingForTask <= 0
       THEN [s EXCEPT !.i = @ + 1]
       ELSE [s EXCEPT !.pc = "alloc", !.caller = "fill",
                      !.item = s.i, !.remaining = Min(remainingForTask, s.budget)]

\* one iteration of "for (const item of scored)", up to its call of allocateHours
fillIter(s) ==
    LET item == s.scored[s.i]
        already == GetOr0(s.allocatedByTask, item.t.id)
        remainingForTask == Max(0, item.hoursNeeded - already)
    IN IF ~canAllocateOverdue(item.overdue, s.overdueAllocated, s.overdueCap)
       THEN [s EXCEPT !.i = @ + 1]
       ELSE IF remainingForTask <= 0
       THEN [s EXCEPT !.i = @ + 1]
       ELSE [s EXCEPT !.pc = "alloc", !.caller = "fill",
                      !.item = s.i, !.remaining = Min(remainingForTask, s.budget)]

\* sortedDays without the sort
sortedDays_asPlaced(days) == days

\* "for (const d of days) d.entries.sort(...)" and the value given to setPlan
sortedDays(days) ==
    [k \in 1..Len(days) |->
        [days[k] EXCEPT
            !.entries = sortDescending(@, [j \in 1..Len(@) |-> @[j].score])]]

----------------------------------------------------------------------------
(* The steps of the effect                                                 *)

ReserveRuns(s) == s.pc = "reserve" /\ s.i <= Len(topN(s)) /\ s.budget > 0
FillRuns(s) == s.pc = "fill" /\ s.i <= Len(s.scored) /\ s.budget > 0

\* the reservation loop ends (list exhausted, or "if (budget <= 0) break")
reserveExit(s) == [s EXCEPT !.pc = "fill", !.i = 1]

\* the fill loop ends
fillExit(s) == [s EXCEPT !.pc = "sort"]

\* allocateHours returns to the loop that called it
allocReturn(s) == [s EXCEPT !.pc = s.caller, !.i = @ + 1]

\* the final sort, in place
finalize(s) == [s EXCEPT !.pc = "done", !.days = sortedDays(@)]

StartEffect ==
    /\ run.pc = "start"
    /\ run' = EnterEffect(tasks, hoursPerWeek, studyDays, capOverdue)
    /\ UNCHANGED <<busyTask, writes, tasks, hoursPerWeek,
                 studyDays, capOverdue, plan, loadAllPending>>

ReserveIter ==
    /\ ReserveRuns(run)
    /\ run' = reserveIter(run)
    /\ UNCHANGED <<busyTask, writes, tasks, hoursPerWeek,
                 studyDays, capOverdue, plan, loadAllPending>>

ReserveExit ==
    /\ run.pc = "reserve"
    /\ ~ReserveRuns(run)
    /\ run' = reserveExit(run)
    /\ UNCHANGED <<busyTask, writes, tasks, hoursPerWeek,
                 studyDays, capOverdue, plan, loadAllPending>>

FillIter ==
    /\ FillRuns(run)
    /\ run' = fillIter(run)
    /\ UNCHANGED <<busyTask, writes, tasks, hoursPerWeek,
                 studyDays, capOverdue, plan, loadAllPending>>

FillExit ==
    /\ run.pc = "fill"
    /\ ~FillRuns(run)
    /\ run' = fillExit(run)
    /\ UNCHANGED <<busyTask, writes, tasks, hoursPerWeek,
                 studyDays, capOverdue, plan, loadAllPending>>

AllocChunk ==
    /\ run.pc = "alloc"
    /\ allocContinues(run)
    /\ run' = placeChunk(run)
    /\ UNCHANGED <<busyTask, writes, tasks, hoursPerWeek,
                 studyDays, capOverdue, plan, loadAllPending>>

AllocReturn ==
    /\ run.pc = "alloc"
    /\ ~allocContinues(run)
    /\ run' = allocReturn(run)
    /\ UNCHANGED <<busyTask, writes, tasks, hoursPerWeek,
                 studyDays, capOverdue, plan, loadAllPending>>

\* the sort and setPlan(days)
Finalize ==
    /\ run.pc = "sort"
    /\ run' = finalize(run)
    /\ plan' = finalize(run).days
    /\ UNCHANGED <<busyTask, writes, tasks, hoursPerWeek,
                 studyDays, capOverdue, loadAllPending>>

EffectStep ==
    \/ StartEffect
    \/ ReserveIter
    \/ ReserveExit
    \/ FillIter
    \/ FillExit
    \/ AllocChunk
    \/ AllocReturn
    \/ Finalize

----------------------------------------------------------------------------
(* Bounded inputs                                                          *)

Doc(w, d, due, st) == [weight |-> w, difficulty |-> d, dueDate |-> due, status |-> st]

\* task documents as loadAll materialises them (Planner.tsx:178-187)
Task(id, doc) ==
    [id |-> id, weight |-> doc.weight, difficulty |-> doc.difficulty,
     dueDate |-> doc.dueDate, status |-> doc.status]

Reading   == Doc(0, 3, <<>>, "not_started")
QuizLate  == Doc(5, 3, <<-1>>, "in_progress")
EssayLate == Doc(80, 4, <<-1>>, "not_started")
Essay     == Doc(80, 4, <<30>>, "not_started")
ExamDone  == Doc(100, 5, <<-1>>, "done")
Exam      == Doc(100, 5, <<0>>, "not_started")

TaskDocs == {Reading, QuizLate, EssayLate, Essay, ExamDone}

TasksOf(docs) == [k \in 1..Len(docs) |-> Task(k, docs[k])]

TaskLists ==
    {TasksOf(docs) : docs \in UNION {[1..n -> TaskDocs] : n \in 0..MaxTasks}}
        \cup {TasksOf(<<Exam>>)}

HoursChoices == {Frac(0, 1), Frac(3, 2), Frac(3, 1), Frac(10, 1), Frac(200, 1)}

StudyDayChoices == {<<>>, ALL_DAYS, <<1, 5>>}

----------------------------------------------------------------------------
(* SpecPlan: the allocation as a function of its inputs.  Every bounded    *)
(* input is an initial state and the effect runs once on it.               *)

InitPlan ==
    /\ tasks \in TaskLists
    /\ hoursPerWeek \in HoursChoices
    /\ studyDays \in StudyDayChoices
    /\ capOverdue \in BOOLEAN
    /\ plan = <<>>
    /\ loadAllPending = FALSE
    /\ busyTask = <<>>
    /\ writes = <<>>
    /\ run = NoRun

SpecPlan == InitPlan /\ [][EffectStep]_vars

----------------------------------------------------------------------------
(* SpecPasses: the same inputs and the same steps as SpecPlan.  The        *)
(* properties of the two passes and of the day entries are checked under   *)
(* this name.                                                              *)

SpecPasses == InitPlan /\ [][EffectStep]_vars

----------------------------------------------------------------------------
(* SpecScore: the scoring functions on one task and on pairs of tasks.     *)
(* The tasks range over weights, difficulties and due dates inside and     *)
(* outside their documented ranges (loadAll takes any stored number); the  *)
(* effect scores them and runs to its end.                                 *)

ScoreWeights == {0, 25, 100, 200}

ScoreDifficulties == {0, 1, 3, 5}

ScoreDueDates == {<<>>, <<-400>>, <<-1>>, <<0>>, <<1>>, <<3>>, <<400>>}

ScoreDocs ==
    {Doc(w, d, due, "not_started") :
        w \in ScoreWeights, d \in ScoreDifficulties, due \in ScoreDueDates}

ScoreTaskLists ==
    {TasksOf(<<a>>) : a \in ScoreDocs}
        \cup {TasksOf(<<a, b>>) : a \in ScoreDocs, b \in ScoreDocs}

InitScore ==
    /\ tasks \in ScoreTaskLists
    /\ hoursPerWeek = Frac(3, 1)
    /\ studyDays = ALL_DAYS
    /\ capOverdue = TRUE
    /\ plan = <<>>
    /\ loadAllPending = FALSE
    /\ busyTask = <<>>
    /\ writes = <<>>
    /\ run = NoRun

SpecScore == InitScore /\ [][EffectStep]_vars

----------------------------------------------------------------------------
(* Spec: the Planner component.  The handlers run between activations of   *)
(* the effect; a handler that changes a dependency of the effect schedules *)
(* a new activation, which starts from the locals' initial values.         *)

\* the user document as onSnapshot delivers it: a field is <<>> when it is
\* missing or of the wrong type, <<v>> when it holds v
Settings(h, sd, cap) == [hoursPerWeek |-> h, studyDays |-> sd, capOverdue |-> cap]

StoredSettings ==
    {Settings(h, sd, cap) :
        h \in {<<>>, <<Frac(3, 2)>>, <<Frac(10, 1)>>},
        sd \in {<<>>, << <<>> >>, << <<7, -1>> >>, << <<4, 0, 9>> >>, << <<2>> >>},
        cap \in {<<>>, <<TRUE>>, <<FALSE>>}}

\* what the task collections hold when loadAll reads them
StoredTaskLists ==
    {TasksOf(<<>>),
     TasksOf(<<Exam>>),
     TasksOf(<<EssayLate, Essay>>),
     TasksOf(<<Reading, Reading, Reading>>),
     TasksOf(<<Essay, ExamDone, QuizLate>>)}

\* what the user types into the hours field
HoursTyped == {Frac(0, 1), Frac(3, 1)}

\* the effect runs again after this render
Rerun == [run EXCEPT !.pc = "start"]

\* cleaned.sort((a, b) => a - b)
sortAscending(seq) == sortDescending(seq, [k \in 1..Len(seq) |-> Frac(0 - seq[k], 1)])

\* the studyDays branch of the snapshot handler
cleanStudyDays(prev, field) ==
    IF field # <<>> /\ Len(field[1]) > 0
    THEN LET cleaned == SelectSeq(field[1], LAMBDA n : n >= 0 /\ n <= 6)
         IN IF Len(cleaned) > 0 THEN sortAscending(cleaned) ELSE prev
    ELSE prev

SettingsSnapshot ==
    /\ run.pc = "done"
    /\ \E data \in StoredSettings :
        /\ hoursPerWeek' = IF data.hoursPerWeek # <<>> THEN data.hoursPerWeek[1]
                           ELSE hoursPerWeek
        /\ studyDays' = cleanStudyDays(studyDays, data.studyDays)
        /\ capOverdue' = IF data.capOverdue # <<>> THEN data.capOverdue[1]
                         ELSE capOverdue
        /\ run' = IF \/ hoursPerWeek' # hoursPerWeek
                     \/ capOverdue' # capOverdue
                     \/ /\ data.studyDays # <<>>
                        /\ cleanStudyDays(<<>>, data.studyDays) # <<>>
                  THEN Rerun ELSE run
    /\ UNCHANGED <<busyTask, writes, tasks, plan, loadAllPending>>

LoadAllDone ==
    /\ run.pc = "done"
    /\ loadAllPending
    /\ tasks' \in StoredTaskLists
    /\ loadAllPending' = FALSE
    /\ run' = Rerun
    /\ UNCHANGED <<busyTask, writes, hoursPerWeek, studyDays, capOverdue, plan>>

ChangeHoursPerWeek ==
    /\ run.pc = "done"
    /\ \E v \in HoursTyped :
        /\ hoursPerWeek' = v
        /\ run' = IF v # hoursPerWeek THEN Rerun ELSE run
    /\ UNCHANGED <<busyTask, writes, tasks, studyDays, capOverdue, plan, loadAllPending>>

\* the updater without the guard on the last enabled day
toggleDay_allowsEmpty(prev, i) ==
    LET has == \E k \in 1..Len(prev) : prev[k] = i
        next == IF has THEN SelectSeq(prev, LAMBDA d : d # i)
                ELSE Append(prev, i)
    IN sortAscending(next)

\* the updater the study-day button passes to setStudyDays
toggleDay(prev, i) ==
    LET has == \E k \in 1..Len(prev) : prev[k] = i
        next == IF has THEN SelectSeq(prev, LAMBDA d : d # i)
                ELSE Append(prev, i)
    IN IF Len(next) = 0 THEN prev ELSE sortAscending(next)

ToggleStudyDay ==
    /\ run.pc = "done"
    /\ \E i \in 0..6 :
        /\ studyDays' = toggleDay(studyDays, i)
        /\ run' = IF toggleDay(studyDays, i) # studyDays THEN Rerun ELSE run
    /\ UNCHANGED <<busyTask, writes, tasks, hoursPerWeek,
                 capOverdue, plan, loadAllPending>>

WeekdaysOnly ==
    /\ run.pc = "done"
    /\ studyDays' = <<0, 1, 2, 3, 4>>
    /\ run' = Rerun
    /\ UNCHANGED <<busyTask, writes, tasks, hoursPerWeek,
                 capOverdue, plan, loadAllPending>>

AllDays ==
    /\ run.pc = "done"
    /\ studyDays' = ALL_DAYS
    /\ run' = Rerun
    /\ UNCHANGED <<busyTask, writes, tasks, hoursPerWeek,
                 capOverdue, plan, loadAllPending>>

ChangeCapOverdue ==
    /\ run.pc = "done"
    /\ capOverdue' = ~capOverdue
    /\ run' = Rerun
    /\ UNCHANGED <<busyTask, writes, tasks, hoursPerWeek,
                 studyDays, plan, loadAllPending>>

Init ==
    /\ tasks = <<>>
    /\ hoursPerWeek = Frac(10, 1)
    /\ studyDays = ALL_DAYS
    /\ capOverdue = TRUE
    /\ plan = <<>>
    /\ loadAllPending = TRUE
    /\ busyTask = <<>>
    /\ writes = <<>>
    /\ run = NoRun

Next ==
    \/ StartEffect
    \/ ReserveIter
    \/ ReserveExit
    \/ FillIter
    \/ FillExit
    \/ AllocChunk
    \/ AllocReturn
    \/ Finalize
    \/ SettingsSnapshot
    \/ LoadAllDone
    \/ ChangeHoursPerWeek
    \/ ToggleStudyDay
    \/ WeekdaysOnly
    \/ AllDays
    \/ ChangeCapOverdue

Spec == Init /\ [][Next]_vars

----------------------------------------------------------------------------
(* The summary view (pages/Dashboard.tsx): its own copy of the scoring     *)
(* functions and of the allocation, which keeps only the total.            *)

\* Dashboard.tsx isOverdue
isOverdue(dueDate) ==
    IF dueDate = <<>> THEN FALSE
    ELSE daysBetween(today, dueDate[1]) < 0

\* Dashboard.tsx scoreTask
dashboardScoreTask(t) ==
    LET daysUntil == IF t.dueDate = <<>> THEN 14
                     ELSE LET raw == daysBetween(today, t.dueDate[1])
                          IN IF raw <= 0 THEN 3 ELSE clamp(1, raw, 365)
    IN Frac(OrElse(t.weight, 0) * OrElse(t.difficulty, 3), daysUntil)

\* Dashboard.tsx estimateHours
dashboardEstimateHours(weight, difficulty) ==
    clamp(1, MathRound(weight * difficulty, 10), 10)

\* the memo activeTasks of the Dashboard
dashboardActiveTasks(ts) == SelectSeq(ts, LAMBDA t : t.status # "done")

\* "scored" of plannedThisWeek
dashboardScored(ts) ==
    LET active == dashboardActiveTasks(ts)
        items == [k \in 1..Len(active) |->
                    [t |-> active[k],
                     s |-> dashboardScoreTask(active[k]),
                     hoursNeeded |->
                        dashboardEstimateHours(active[k].weight, active[k].difficulty)]]
    IN sortDescending(items, [k \in 1..Len(items) |-> items[k].s])

\* alloc(taskId, amount) of plannedThisWeek, on its locals
alloc(s, taskId, amount, dayCount) ==
    [s EXCEPT
        !.allocatedByTask =
            [k \in DOMAIN @ \cup {taskId} |->
                IF k = taskId THEN GetOr0(@, k) + amount ELSE @[k]],
        !.total = @ + amount,
        !.cursor = (@ + 1) % dayCount]

\* "for (const item of scored.slice(0, 3))" of plannedThisWeek, from item i
RECURSIVE dashboardReserve(_, _, _, _)
dashboardReserve(s, top, i, dayCount) ==
    IF i > Len(top) \/ s.budget <= 0 THEN s
    ELSE LET id == top[i].t.id
         IN IF GetOr0(s.allocatedByTask, id) >= 1
            THEN dashboardReserve(s, top, i + 1, dayCount)
            ELSE dashboardReserve(alloc([s EXCEPT !.budget = @ - 1], id, 1, dayCount),
                                  top, i + 1, dayCount)

\* "for (const item of scored)" of plannedThisWeek, from item i
RECURSIVE dashboardFill(_, _, _, _)
dashboardFill(s, scored, i, dayCount) ==
    IF i > Len(scored) \/ s.budget <= 0 THEN s
    ELSE LET id == scored[i].t.id
             remaining == Max(0, scored[i].hoursNeeded - GetOr0(s.allocatedByTask, id))
             take == Min(remaining, s.budget)
         IN IF remaining <= 0
            THEN dashboardFill(s, scored, i + 1, dayCount)
            ELSE dashboardFill(alloc([s EXCEPT !.budget = @ - take], id, take, dayCount),
                               scored, i + 1, dayCount)

\* the memo plannedThisWeek
plannedThisWeek(ts, hpw, sd) ==
    LET enabled == IF Len(sd) > 0 THEN sd ELSE <<0, 1, 2, 3, 4, 5, 6>>
        dayCount == Len(enabled)
        scored == dashboardScored(ts)
        s0 == [budget |-> clamp(1, MathRound(hpw.n, hpw.d), 80),
               allocatedByTask |-> EmptyMap,
               total |-> 0,
               cursor |-> 0]
        s1 == dashboardReserve(s0, SubSeq(scored, 1, Min(3, Len(scored))), 1, dayCount)
    IN dashboardFill(s1, scored, 1, dayCount).total

----------------------------------------------------------------------------
(* Quantities the properties speak about                                   *)

RECURSIVE SumTo(_, _)
SumTo(f, n) == IF n = 0 THEN 0 ELSE f[n] + SumTo(f, n - 1)

SumSeq(f) == SumTo(f, Len(f))

\* sum of totalHours over the days
TotalHours(days) == SumSeq([k \in 1..Len(days) |-> days[k].totalHours])

\* hours of the entries of all days whose task id is in ids
HoursAmong(days, ids) ==
    SumSeq([k \in 1..Len(days) |->
        SumSeq([j \in 1..Len(days[k].entries) |->
            IF days[k].entries[j].taskId \in ids
            THEN days[k].entries[j].hours ELSE 0])])

\* hours placed for the task with this id
HoursOf(days, id) == HoursAmong(days, {id})

AllEntries(days) ==
    UNION {{days[k].entries[j] : j \in 1..Len(days[k].entries)} : k \in 1..Len(days)}

\* due strictly before today
DuePast(t) == t.dueDate # <<>> /\ t.dueDate[1] < 0

IsActive(t) == t.status # "done"

ActiveIds == {tasks[k].id : k \in {j \in 1..Len(tasks) : IsActive(tasks[j])}}

DuePastIds == {tasks[k].id : k \in {j \in 1..Len(tasks) : DuePast(tasks[j])}}

\* clamp(1, round(hoursPerWeek), 80), written out
RoundedBudget ==
    LET r == (2 * hoursPerWeek.n + hoursPerWeek.d) \div (2 * hoursPerWeek.d)
    IN IF r < 1 THEN 1 ELSE IF r > 80 THEN 80 ELSE r

\* floor(RoundedBudget * 0.6)
SixtyPercent == (6 * RoundedBudget) \div 10

\* the effect has initialised its locals
Started == run.pc # "start"

Done == run.pc = "done"

----------------------------------------------------------------------------
(* C1  Total hours against the weekly budget                               *)

\* C1 as stated: the sum of totalHours over the days never exceeds
\* clamp(1, hoursPerWeek, 80), during the run and in the returned plan.
\* (Compared after multiplying by the denominator of hoursPerWeek.)
C1_SumWithinClampedHours ==
    LET d == hoursPerWeek.d
        clamped == Max(d, Min(80 * d, hoursPerWeek.n))
    IN /\ TotalHours(run.days) * d <= clamped
       /\ TotalHours(plan) * d <= clamped

\* C1 amended: the sum of totalHours over the days never exceeds
\* clamp(1, round(hoursPerWeek), 80), after every single-hour placement and
\* in the returned plan.
C1_SumWithinRoundedBudget ==
    /\ TotalHours(run.days) <= RoundedBudget
    /\ TotalHours(plan) <= RoundedBudget

\* the budget is used up while tasks still need hours, for an hoursPerWeek
\* that is not an integer
C1_Witness ==
    /\ Done
    /\ hoursPerWeek = Frac(3, 2)
    /\ TotalHours(plan) = 2
    /\ \E k \in 1..Len(run.scored) :
          HoursOf(plan, run.scored[k].t.id) < run.scored[k].hoursNeeded

----------------------------------------------------------------------------
(* C2  The overdue cap                                                     *)

OverdueHours(days) == HoursAmong(days, DuePastIds)

\* C2: with capOverdue enabled, the hours placed on overdue tasks (both
\* passes together) never exceed floor(budget * 0.6); with budget = 1 no
\* overdue task receives an hour.
C2_OverdueWithinCap ==
    capOverdue =>
        /\ OverdueHours(run.days) <= SixtyPercent
        /\ OverdueHours(plan) <= SixtyPercent
        /\ RoundedBudget = 1 => OverdueHours(run.days) = 0 /\ OverdueHours(plan) = 0

\* the cap was binding: overdue work is left over, and so is budget
C2_Witness ==
    /\ Done
    /\ capOverdue
    /\ SixtyPercent >= 1
    /\ OverdueHours(plan) = SixtyPercent
    /\ run.budget > 0
    /\ \E k \in 1..Len(run.scored) :
          /\ run.scored[k].overdue
          /\ HoursOf(plan, run.scored[k].t.id) < run.scored[k].hoursNeeded

----------------------------------------------------------------------------
(* C3  Done tasks are not scheduled                                        *)

\* C3: no done task appears as an entry of any day, and the budget and the
\* overdue cap are consumed by the entries (all of active tasks) alone.
C3_DoneTasksNeverPlanned ==
    /\ \A e \in AllEntries(run.days) \cup AllEntries(plan) :
          /\ e.status # "done"
          /\ e.taskId \in ActiveIds
    /\ Started =>
          /\ RoundedBudget - run.budget = HoursAmong(run.days, ActiveIds)
          /\ run.overdueAllocated = HoursAmong(run.days, ActiveIds \cap DuePastIds)

\* a done task that outscores every active task, next to planned work
C3_Witness ==
    /\ Done
    /\ Len(tasks) = 3
    /\ \E k \in 1..Len(tasks) :
          /\ ~IsActive(tasks[k])
          /\ \A j \in 1..Len(run.scored) : FracLess(run.scored[j].s, scoreTask(tasks[k]))
    /\ TotalHours(plan) >= 2

----------------------------------------------------------------------------
(* C4  The plan is a function of the inputs                                *)

\* the effect's next step, as a function of its activation
effectStep(s) ==
    IF ReserveRuns(s) THEN reserveIter(s)
    ELSE IF s.pc = "reserve" THEN reserveExit(s)
    ELSE IF FillRuns(s) THEN fillIter(s)
    ELSE IF s.pc = "fill" THEN fillExit(s)
    ELSE IF s.pc = "alloc" /\ allocContinues(s) THEN placeChunk(s)
    ELSE IF s.pc = "alloc" THEN allocReturn(s)
    ELSE finalize(s)

RECURSIVE RunEffect(_)
RunEffect(s) == IF s.pc = "done" THEN s ELSE RunEffect(effectStep(s))

\* the plan of a computation that nothing preceded
FreshPlan(ts, hpw, sd, cap) == RunEffect(EnterEffect(ts, hpw, sd, cap)).days

\* C4: whenever a computation has finished, the plan is the one a fresh
\* computation yields for the current tasks, hoursPerWeek, studyDays and
\* capOverdue, whatever computations ran before it.
C4_PlanDependsOnInputsOnly ==
    Done => plan = FreshPlan(tasks, hoursPerWeek, studyDays, capOverdue)

\* a finished computation that followed others with different inputs
C4_Witness ==
    /\ Done
    /\ tasks # <<>>
    /\ hoursPerWeek # Frac(10, 1)
    /\ studyDays = <<1, 5>>
    /\ ~capOverdue
    /\ TotalHours(plan) >= 3

----------------------------------------------------------------------------
(* C5  Empty studyDays                                                     *)

AllDaysEmpty(days) ==
    \A k \in 1..Len(days) : days[k].totalHours = 0 /\ days[k].entries = <<>>

----------------------------------------------------------------------------
(* C6  One day per enabled weekday                                         *)

EnabledWeekdays ==
    IF Len(studyDays) = 0 THEN 0..6
    ELSE {studyDays[k] : k \in 1..Len(studyDays)}

\* C6: the plan holds exactly one day per enabled weekday, in ascending
\* weekday order; without an active task every day is empty.
C6_OneDayPerEnabledWeekday ==
    Done =>
        /\ Len(plan) = Cardinality(EnabledWeekdays)
        /\ \A k \in 1..Len(plan) : plan[k].dayLabel \in EnabledWeekdays
        /\ \A j, k \in 1..Len(plan) : j < k => plan[j].dayLabel < plan[k].dayLabel
        /\ ActiveIds = {} => AllDaysEmpty(plan)

\* two enabled days and a task list whose tasks are all done
C6_Witness ==
    /\ Done
    /\ studyDays = <<1, 5>>
    /\ Len(tasks) = 2
    /\ ActiveIds = {}
    /\ Len(plan) = 2

----------------------------------------------------------------------------
(* C7  Overdue task capped, the rest goes to the future task               *)

Need(t) == estimateHours(t.weight, t.difficulty)

\* C7: capping enabled, the active tasks are one overdue task o and one
\* non-overdue task f, each needing at least the budget, o scoring higher:
\* o ends with floor(budget * 0.6) hours and f with the rest of the budget.
\* For weight 80, difficulty 4, due yesterday and in 30 days, hoursPerWeek 10
\* these are 6 and 4 hours.
C7_OverdueCappedRestToFuture ==
    (Done /\ capOverdue) =>
        /\ \A o, f \in 1..Len(tasks) :
              ( /\ ActiveIds = {tasks[o].id, tasks[f].id}
                /\ DuePast(tasks[o])
                /\ ~DuePast(tasks[f])
                /\ Need(tasks[o]) >= RoundedBudget
                /\ Need(tasks[f]) >= RoundedBudget
                /\ FracLess(scoreTask(tasks[f]), scoreTask(tasks[o])) )
              => /\ HoursOf(plan, tasks[o].id) = SixtyPercent
                 /\ HoursOf(plan, tasks[f].id) = RoundedBudget - SixtyPercent
        /\ ( /\ Len(tasks) = 2
             /\ hoursPerWeek = Frac(10, 1)
             /\ \A k \in 1..2 : /\ tasks[k].weight = 80
                                /\ tasks[k].difficulty = 4
                                /\ IsActive(tasks[k])
             /\ tasks[1].dueDate = <<-1>>
             /\ tasks[2].dueDate = <<30>> )
           => HoursOf(plan, tasks[1].id) = 6 /\ HoursOf(plan, tasks[2].id) = 4

\* the scenario of the claim, finished
C7_Witness ==
    /\ Done
    /\ capOverdue
    /\ hoursPerWeek = Frac(10, 1)
    /\ Len(tasks) = 2
    /\ tasks[1].weight = 80 /\ tasks[1].difficulty = 4 /\ tasks[1].dueDate = <<-1>>
    /\ tasks[2].weight = 80 /\ tasks[2].difficulty = 4 /\ tasks[2].dueDate = <<30>>
    /\ IsActive(tasks[1]) /\ IsActive(tasks[2])
    /\ HoursOf(plan, 1) = 6

----------------------------------------------------------------------------
(* C8  One task due today, ten hours over seven days                       *)

DueTodayScenario ==
    /\ Len(tasks) = 1
    /\ tasks[1].weight = 100
    /\ tasks[1].difficulty = 5
    /\ tasks[1].dueDate = <<0>>
    /\ IsActive(tasks[1])
    /\ hoursPerWeek = Frac(10, 1)
    /\ studyDays = ALL_DAYS

\* C8: in this scenario the task needs 10 hours and receives all 10, no
\* entry is flagged overdue, and after p placements day k of the ring holds
\* the placements k-1, k-1+7, ... below p: one hour per day in ring order,
\* the 8th to 10th hour on the first three days.
C8_DueTodaySpreadInRingOrder ==
    DueTodayScenario =>
        /\ \A e \in AllEntries(run.days) \cup AllEntries(plan) :
              e.overdue = FALSE /\ e.taskId = tasks[1].id
        /\ Started =>
              /\ run.scored[1].hoursNeeded = 10
              /\ \A k \in 1..7 :
                    run.days[k].totalHours =
                        Cardinality({j \in 0..(TotalHours(run.days) - 1) : j % 7 = k - 1})
        /\ Done =>
              /\ TotalHours(plan) = 10
              /\ HoursOf(plan, tasks[1].id) = 10
              /\ \A k \in 1..7 : /\ plan[k].totalHours = IF k <= 3 THEN 2 ELSE 1
                                 /\ Len(plan[k].entries) = 1

\* the scenario, finished, with the wrapped hours on Monday
C8_Witness ==
    /\ DueTodayScenario
    /\ Done
    /\ capOverdue
    /\ plan[1].totalHours = 2
    /\ plan[7].totalHours = 1

----------------------------------------------------------------------------
(* C9  Three one-hour tasks, three hours                                   *)

ThreeReadingsScenario ==
    /\ Len(tasks) = 3
    /\ \A k \in 1..3 : /\ tasks[k].weight = 0
                       /\ tasks[k].difficulty = 3
                       /\ tasks[k].dueDate = <<>>
                       /\ IsActive(tasks[k])
    /\ hoursPerWeek = Frac(3, 1)

\* C9: in this scenario every task needs 1 hour; when the reservation pass
\* is over each task k has exactly 1 hour, on ring slot k (input order), the
\* budget is used up and the total is 3; the fill pass never places an hour.
C9_ThreeTasksReservedInInputOrder ==
    ThreeReadingsScenario =>
        /\ Started => \A k \in 1..3 : run.scored[k].hoursNeeded = 1
        /\ run.pc \in {"fill", "sort", "done"} =>
              /\ run.budget = 0
              /\ TotalHours(run.days) = 3
              /\ \A k \in 1..3 :
                    /\ HoursOf(run.days, tasks[k].id) = 1
                    /\ \E e \in AllEntries(<<run.days[((k - 1) % Len(run.days)) + 1]>>) :
                          e.taskId = tasks[k].id /\ e.hours = 1
        /\ ~(run.pc = "alloc" /\ run.caller = "fill")
        /\ Done => TotalHours(plan) = 3

\* the scenario, finished, on a ring of at least three days
C9_Witness ==
    /\ ThreeReadingsScenario
    /\ Done
    /\ Len(plan) >= 3
    /\ \A k \in 1..3 : plan[k].totalHours = 1 /\ plan[k].entries[1].taskId = k

----------------------------------------------------------------------------
(* C10  Only overdue tasks, capping enabled                                *)

AllActiveOverdue == \A k \in 1..Len(tasks) : IsActive(tasks[k]) => DuePast(tasks[k])

NeedOfActive ==
    SumSeq([k \in 1..Len(tasks) |-> IF IsActive(tasks[k]) THEN Need(tasks[k]) ELSE 0])

\* C10: if every active task is overdue and capping is enabled, the hours
\* allocated are min(floor(budget * 0.6), sum of hoursNeeded) and the rest of
\* the budget is left unused.
C10_AllOverdueSpendsOnlyTheCap ==
    (Done /\ capOverdue /\ AllActiveOverdue) =>
        /\ TotalHours(plan) = Min(SixtyPercent, NeedOfActive)
        /\ run.budget = RoundedBudget - TotalHours(plan)

\* overdue work beyond the cap: the cap is spent and budget is left
C10_Witness ==
    /\ Done
    /\ capOverdue
    /\ AllActiveOverdue
    /\ ActiveIds # {}
    /\ SixtyPercent >= 1
    /\ NeedOfActive > SixtyPercent
    /\ TotalHours(plan) = SixtyPercent
    /\ run.budget > 0

----------------------------------------------------------------------------
(* C11  The summary view against the planner                               *)

\* C11: for the same tasks, hoursPerWeek and studyDays, the Dashboard's
\* plannedThisWeek equals the sum of totalHours over the plan the Planner
\* computes, with the Planner's overdue cap enabled or not.
C11_DashboardTotalEqualsPlanTotal ==
    Done => plannedThisWeek(tasks, hoursPerWeek, studyDays) = TotalHours(plan)

\* the two totals agree whenever the Planner's cap is switched off
C11_TotalsAgreeWithoutCap ==
    (Done /\ ~capOverdue) =>
        plannedThisWeek(tasks, hoursPerWeek, studyDays) = TotalHours(plan)

----------------------------------------------------------------------------
(* C12  Score against the due date                                         *)

\* the scored items of the running computation
ScoredItems == {run.scored[k] : k \in 1..Len(run.scored)}

\* two scored tasks that differ at most in their due date, both dated
SameButDue(a, b) ==
    /\ a.t.weight = b.t.weight
    /\ a.t.difficulty = b.t.difficulty
    /\ a.t.dueDate # <<>>
    /\ b.t.dueDate # <<>>

\* C12 as stated: with weight and difficulty fixed, the task with the
\* earlier due date never has the lower score.
C12_CloserDueDateNeverScoresLower ==
    Started =>
        \A a, b \in ScoredItems :
            (SameButDue(a, b) /\ a.t.dueDate[1] < b.t.dueDate[1])
                => ~FracLess(a.s, b.s)

\* C12 amended: with weight and difficulty fixed, among due dates after
\* today the earlier one never has the lower score; a task due today or
\* earlier scores exactly like the same task due in 3 days, so it scores at
\* least as high as the same task due in 3 or more days and, when its score
\* is positive, strictly lower than the same task due in 1 or 2 days.
C12_CloserDueDateAfterTodayOrThreeDayHorizon ==
    Started =>
        \A a, b \in ScoredItems :
            SameButDue(a, b) =>
                LET da == a.t.dueDate[1]
                    db == b.t.dueDate[1]
                IN /\ (0 < da /\ da < db) => ~FracLess(a.s, b.s)
                   /\ (da <= 0 /\ db <= 0) => a.s = b.s
                   /\ (da <= 0 /\ db = 3) => a.s = b.s
                   /\ (da <= 0 /\ db >= 3) => ~FracLess(a.s, b.s)
                   /\ (da <= 0 /\ db \in {1, 2} /\ a.s.n > 0) => FracLess(a.s, b.s)

\* the same task due today and due tomorrow: the one due today scores lower
C12_Witness ==
    /\ Done
    /\ \E a, b \in ScoredItems :
          /\ SameButDue(a, b)
          /\ a.t.dueDate = <<0>>
          /\ b.t.dueDate = <<1>>
          /\ FracLess(a.s, b.s)

----------------------------------------------------------------------------
(* C13  Score against weight, difficulty and daysUntilDue                  *)

\* weight in [0,100] and difficulty in [1,5]
InRange(t) ==
    /\ t.weight >= 0 /\ t.weight <= 100
    /\ t.difficulty >= 1 /\ t.difficulty <= 5

\* the daysUntilDue value the score of a scored item was computed with
DaysUsed(item) == item.s.d

\* C13: over weight in [0,100] and difficulty in [1,5], the score does not
\* decrease when the weight grows (difficulty and due date fixed) nor when
\* the difficulty grows (weight and due date fixed), and does not increase
\* when the derived daysUntilDue grows (weight and difficulty fixed).
C13_ScoreMonotone ==
    Started =>
        \A a, b \in ScoredItems :
            (InRange(a.t) /\ InRange(b.t)) =>
                /\ ( /\ a.t.difficulty = b.t.difficulty
                     /\ a.t.dueDate = b.t.dueDate
                     /\ a.t.weight <= b.t.weight ) => ~FracLess(b.s, a.s)
                /\ ( /\ a.t.weight = b.t.weight
                     /\ a.t.dueDate = b.t.dueDate
                     /\ a.t.difficulty <= b.t.difficulty ) => ~FracLess(b.s, a.s)
                /\ ( /\ a.t.weight = b.t.weight
                     /\ a.t.difficulty = b.t.difficulty
                     /\ DaysUsed(a) <= DaysUsed(b) ) => ~FracLess(a.s, b.s)

\* two tasks in range that differ in the weight alone, the heavier one
\* scoring strictly higher
C13_Witness ==
    /\ Done
    /\ Len(run.scored) = 2
    /\ InRange(run.scored[1].t) /\ InRange(run.scored[2].t)
    /\ run.scored[1].t.difficulty = run.scored[2].t.difficulty
    /\ run.scored[1].t.dueDate = run.scored[2].t.dueDate
    /\ run.scored[1].t.weight = 100
    /\ run.scored[2].t.weight = 25
    /\ FracLess(run.scored[2].s, run.scored[1].s)

----------------------------------------------------------------------------
(* C14  The days-until-due value of the score                              *)

\* 14 without a due date, 3 for a due date today or earlier, otherwise the
\* difference in days, at least 1 and at most 365
DaysUntilDueExpected(dueDate) ==
    IF dueDate = <<>> THEN 14
    ELSE IF dueDate[1] <= 0 THEN 3
    ELSE IF dueDate[1] < 1 THEN 1
    ELSE IF dueDate[1] > 365 THEN 365
    ELSE dueDate[1]

\* C14: the days-until-due value used in the score is 14 for a task without
\* a due date, 3 for a task due today or earlier, and otherwise the
\* difference dueDate - today in days clamped to [1,365]; the Dashboard's
\* score uses the same value.
C14_DaysUntilDueUsedInScore ==
    Started =>
        \A a \in ScoredItems :
            /\ DaysUsed(a) = DaysUntilDueExpected(a.t.dueDate)
            /\ dashboardScoreTask(a.t).d = DaysUntilDueExpected(a.t.dueDate)

\* an undated task next to one due in more than a year
C14_Witness ==
    /\ Done
    /\ \E a, b \in ScoredItems :
          /\ a.t.dueDate = <<>> /\ DaysUsed(a) = 14
          /\ b.t.dueDate = <<400>> /\ DaysUsed(b) = 365

----------------------------------------------------------------------------
(* C15  The overdue flag                                                   *)

\* C15: a task is flagged overdue (by the Planner and by the Dashboard) iff
\* it has a due date strictly before today; the entries carry the same flag;
\* a task due today or undated is at no point of the run refused by the
\* overdue cap.
C15_OverdueIffDueBeforeToday ==
    /\ Started =>
          \A a \in ScoredItems :
              /\ a.overdue <=> DuePast(a.t)
              /\ isOverdue(a.t.dueDate) <=> DuePast(a.t)
              /\ ~DuePast(a.t) =>
                    canAllocateOverdue(a.overdue, run.overdueAllocated, run.overdueCap)
    /\ \A e \in AllEntries(run.days) \cup AllEntries(plan) :
          e.overdue <=> (e.dueDate # <<>> /\ e.dueDate[1] < 0)

\* capping enabled with a cap of 1 hour: a task due today received more
\* than the cap, next to an overdue task that was held at the cap
C15_Witness ==
    /\ Done
    /\ capOverdue
    /\ run.overdueCap = 1
    /\ \E a, b \in ScoredItems :
          /\ a.t.dueDate = <<0>>
          /\ HoursOf(plan, a.t.id) = 2
          /\ b.t.dueDate = <<-1>>
          /\ HoursOf(plan, b.t.id) = 1
          /\ b.hoursNeeded > 1

----------------------------------------------------------------------------
(* C16  estimateHours                                                      *)

\* round(weight * difficulty / 10), halves up, kept within [1,10]
HoursExpected(weight, difficulty) ==
    LET r == (weight * difficulty + 5) \div 10
    IN IF r < 1 THEN 1 ELSE IF r > 10 THEN 10 ELSE r

\* C16: estimateHours(weight, difficulty), in the Planner and in the
\* Dashboard, is round(weight * difficulty / 10) with halves rounded up,
\* clamped to [1,10]; it lies in [1,10].
C16_EstimateHoursRoundedAndClamped ==
    Started =>
        \A a \in ScoredItems :
            /\ a.hoursNeeded = HoursExpected(a.t.weight, a.t.difficulty)
            /\ dashboardEstimateHours(a.t.weight, a.t.difficulty)
                    = HoursExpected(a.t.weight, a.t.difficulty)
            /\ a.hoursNeeded >= 1
            /\ a.hoursNeeded <= 10

\* 2.5 is rounded up to 3 hours, next to a task clamped down to 10 hours
C16_Witness ==
    /\ Done
    /\ \E a, b \in ScoredItems :
          /\ a.t.weight = 25 /\ a.t.difficulty = 1 /\ a.hoursNeeded = 3
          /\ b.t.weight = 100 /\ b.t.difficulty = 5 /\ b.hoursNeeded = 10

----------------------------------------------------------------------------
(* C17  Out-of-range weight and difficulty                                 *)

\* the task with its weight clamped to [0,100] and its difficulty to [1,5]
Normalized(t) ==
    [t EXCEPT !.weight = IF @ < 0 THEN 0 ELSE IF @ > 100 THEN 100 ELSE @,
              !.difficulty = IF @ < 1 THEN 1 ELSE IF @ > 5 THEN 5 ELSE @]

\* equality of fractions
FracEq(a, b) == a.n * b.d = b.n * a.d

\* C17: the score of a task equals the score of the same task with weight
\* clamped to [0,100] and difficulty clamped to [1,5].
C17_ScoreOfNormalizedTask ==
    Started =>
        \A a \in ScoredItems : FracEq(a.s, scoreTask(Normalized(a.t)))

----------------------------------------------------------------------------
(* C18  hoursPerWeek = 0                                                   *)

\* every day's totalHours is the sum of the hours of its entries
WellFormed(days) ==
    \A k \in 1..Len(days) :
        days[k].totalHours =
            SumSeq([j \in 1..Len(days[k].entries) |-> days[k].entries[j].hours])

\* the active tasks the overdue cap does not concern
Plannable == {k \in 1..Len(tasks) :
                 IsActive(tasks[k]) /\ (~capOverdue \/ ~DuePast(tasks[k]))}

\* C18 as stated: with hoursPerWeek = 0 every day of the plan has no entries
\* and totalHours 0.
C18_ZeroHoursGivesEmptyPlan ==
    (Done /\ hoursPerWeek = Frac(0, 1)) => AllDaysEmpty(plan)

\* C18 amended: with hoursPerWeek = 0 the budget is 1 hour and the overdue
\* cap, when enabled, is 0: the plan is well formed, with one day per enabled
\* weekday; it holds exactly one hour if some active task is not overdue or
\* capping is disabled, on the first day, for a task no such task outscores;
\* otherwise every day is empty.
C18_ZeroHoursPlansOneHour ==
    hoursPerWeek = Frac(0, 1) =>
        /\ Started => run.budget + TotalHours(run.days) = 1
        /\ Done =>
            /\ Len(plan) = Cardinality(EnabledWeekdays)
            /\ WellFormed(plan)
            /\ Plannable = {} => AllDaysEmpty(plan)
            /\ Plannable # {} =>
                /\ TotalHours(plan) = 1
                /\ Len(plan[1].entries) = 1
                /\ plan[1].entries[1].hours = 1
                /\ \E k \in Plannable :
                      /\ plan[1].entries[1].taskId = tasks[k].id
                      /\ \A j \in Plannable :
                            ~FracLess(scoreTask(tasks[k]), scoreTask(tasks[j]))

\* hoursPerWeek = 0, capping enabled: the best task is overdue and gets
\* nothing, the hour goes to a task that is not overdue
C18_Witness ==
    /\ Done
    /\ hoursPerWeek = Frac(0, 1)
    /\ capOverdue
    /\ Len(run.scored) = 3
    /\ run.scored[1].overdue
    /\ TotalHours(plan) = 1
    /\ plan[1].totalHours = 1

----------------------------------------------------------------------------
(* C19  Every run terminates                                               *)

\* an upper bound on the number of steps an activation still takes: two per
\* remaining loop iteration, one per hour of budget, and the loop exits
StepsLeft(s) ==
    LET N == Len(s.scored)
        T == Len(topN(s))
        fill(i) == 2 * (N + 1 - i) + s.budget + 2
        reserve(i) == 2 * (T + 1 - i) + 2 + fill(1)
    IN CASE s.pc = "start" -> 2 * Len(tasks) + 100
         [] s.pc = "reserve" -> reserve(s.i)
         [] s.pc = "alloc" /\ s.caller = "reserve" -> reserve(s.i) - 1
         [] s.pc = "fill" -> fill(s.i)
         [] s.pc = "alloc" /\ s.caller = "fill" -> fill(s.i) - 1
         [] s.pc = "sort" -> 1
         [] s.pc = "done" -> 0

\* C19: every allocation run terminates: until it is done the run always has
\* a next step, and every step lowers a bound on the steps left that never
\* goes below 0; each iteration of the placement loop places one hour,
\* lowers the budget by one and advances the cursor modulo a day list that
\* is not empty, so the hours placed over both passes are the initial budget
\* minus the budget left, at most 80.
C19_EveryRunTerminates ==
    [][ /\ StepsLeft(run') < StepsLeft(run)
        /\ StepsLeft(run') >= 0
        /\ (~Done => ENABLED EffectStep)'
        /\ run'.budget >= 0
        /\ TotalHours(run'.days) = RoundedBudget - run'.budget
        /\ TotalHours(run'.days) <= 80
        /\ Len(run'.days) > 0
        /\ AllocChunk =>
             /\ run'.budget = run.budget - 1
             /\ TotalHours(run'.days) = TotalHours(run.days) + 1
             /\ run'.dayCursor = (run.dayCursor + 1) % Len(run.days)
             /\ run'.dayCursor \in 0..(Len(run.days) - 1) ]_vars

\* a run on an empty studyDays that ended because the budget was used up
C19_Witness ==
    /\ Done
    /\ studyDays = <<>>
    /\ Len(tasks) = 3
    /\ run.budget = 0
    /\ TotalHours(plan) = 10

----------------------------------------------------------------------------
(* C20  Placements follow the day ring                                     *)

\* the number of k in 0..p-1 with k mod n = pos
SlotsOf(pos, p, n) == Cardinality({k \in 0..(p - 1) : k % n = pos})

\* C20: with n enabled days, the k-th single-hour placement of a run (k from
\* 0, over both passes) lands on ring position k mod n: after p placements
\* the cursor is at p mod n and the day at position pos holds one hour for
\* each k < p with k mod n = pos.  In the returned plan any two days differ
\* by at most one hour and no day has fewer hours than a later one.
C20_PlacementsFollowTheRing ==
    /\ Started =>
          LET n == Len(run.days)
              p == TotalHours(run.days)
          IN /\ run.dayCursor = p % n
             /\ \A d \in 1..n : run.days[d].totalHours = SlotsOf(d - 1, p, n)
    /\ Done =>
          \A j, k \in 1..Len(plan) :
              j < k => /\ plan[j].totalHours >= plan[k].totalHours
                       /\ plan[j].totalHours - plan[k].totalHours <= 1

\* three hours over two enabled days, placed in both passes: two on the
\* first day, one on the second
C20_Witness ==
    /\ Done
    /\ studyDays = <<1, 5>>
    /\ hoursPerWeek = Frac(3, 1)
    /\ Len(run.scored) = 2
    /\ plan[1].totalHours = 2
    /\ plan[2].totalHours = 1

----------------------------------------------------------------------------
(* C21  The reservation pass                                               *)

\* the fill pass has begun
FillStarted ==
    \/ run.pc \in {"fill", "sort", "done"}
    \/ run.pc = "alloc" /\ run.caller = "fill"

\* the task ranked k is overdue and the overdue tasks ranked before it have
\* used up the cap with their reserved hours
BlockedAtReservation(k) ==
    /\ capOverdue
    /\ DuePast(run.scored[k].t)
    /\ Cardinality({j \in 1..(k - 1) : DuePast(run.scored[j].t)}) >= SixtyPercent

\* C21: with a budget of at least 3, while the reservation pass runs no task
\* holds more than 1 hour and no task ranked below the third holds any; when
\* the fill pass begins, and in the final plan, each of the three
\* highest-scored active tasks that the overdue cap did not block holds at
\* least 1 hour.
C21_TopThreeReservedBeforeFill ==
    (Started /\ RoundedBudget >= 3) =>
        LET top == 1..Min(3, Len(run.scored))
            id(k) == run.scored[k].t.id
        IN /\ ~FillStarted =>
                \A k \in 1..Len(run.scored) :
                    /\ HoursOf(run.days, id(k)) <= 1
                    /\ k \notin top => HoursOf(run.days, id(k)) = 0
           /\ FillStarted =>
                \A k \in top :
                    ~BlockedAtReservation(k) => HoursOf(run.days, id(k)) >= 1
           /\ Done =>
                \A k \in top :
                    ~BlockedAtReservation(k) => HoursOf(plan, id(k)) >= 1

\* three tasks, the best of which alone needs the whole budget: each holds
\* an hour in the final plan
C21_Witness ==
    /\ Done
    /\ RoundedBudget >= 3
    /\ Len(run.scored) = 3
    /\ run.scored[1].hoursNeeded >= RoundedBudget
    /\ run.budget = 0
    /\ \A k \in 1..3 : HoursOf(plan, run.scored[k].t.id) >= 1

----------------------------------------------------------------------------
(* C22  The fill pass and the overdue cap                                  *)

\* allocateHours from the state in which it was called to its return
RECURSIVE RunAlloc(_)
RunAlloc(s) ==
    IF s.pc = "alloc" /\ allocContinues(s) THEN RunAlloc(placeChunk(s)) ELSE s

\* the hours the fill pass places for the task it is about to visit
FillVisitHours ==
    LET entered == fillIter(run)
    IN IF entered.pc = "alloc"
       THEN entered.remaining - RunAlloc(entered).remaining
       ELSE 0

\* min(hoursNeeded - alreadyAllocated, budget) for the task about to be visited
FillVisitWanted ==
    LET item == run.scored[run.i]
    IN Min(Max(0, item.hoursNeeded - HoursOf(run.days, item.t.id)), run.budget)

\* what the overdue cap still admits
CapRoom == Max(0, SixtyPercent - OverdueHours(run.days))

\* C22 as stated: with capping enabled, every overdue task the fill pass
\* visits receives in that pass either min(hoursNeeded - alreadyAllocated,
\* budget) hours or none.
C22_FillVisitAllOrNothing ==
    (FillRuns(run) /\ capOverdue /\ DuePast(run.scored[run.i].t)) =>
        FillVisitHours \in {0, FillVisitWanted}

\* C22 amended: with capping enabled, an overdue task the fill pass visits
\* when the cap is already reached receives nothing in that pass; otherwise
\* it receives min(hoursNeeded - alreadyAllocated, budget, overdueCap -
\* overdueAllocated) hours: it is filled up to the cap, possibly partially.
\* A task that is not overdue receives min(hoursNeeded - alreadyAllocated,
\* budget) hours.
C22_FillVisitUpToTheCap ==
    FillRuns(run) =>
        IF capOverdue /\ DuePast(run.scored[run.i].t)
        THEN FillVisitHours = Min(FillVisitWanted, CapRoom)
        ELSE FillVisitHours = FillVisitWanted

\* the fill pass is about to visit an overdue task that wants more hours
\* than the cap still admits, and the cap admits some
C22_Witness ==
    /\ FillRuns(run)
    /\ capOverdue
    /\ DuePast(run.scored[run.i].t)
    /\ CapRoom >= 1
    /\ FillVisitWanted > CapRoom
    /\ FillVisitHours = CapRoom

----------------------------------------------------------------------------
(* C23  Hours per task                                                     *)

\* C23: at every point of a run and in the final plan, the hours placed for
\* a task over all days do not exceed its hoursNeeded =
\* estimateHours(weight, difficulty), hence not 10.
C23_TaskHoursWithinNeed ==
    /\ \A k \in 1..Len(tasks) :
          /\ HoursOf(run.days, tasks[k].id) <= Need(tasks[k])
          /\ Need(tasks[k]) <= 10
    /\ Done =>
          \A k \in 1..Len(tasks) : HoursOf(plan, tasks[k].id) <= Need(tasks[k])

\* a task with a reserved hour that ends with exactly its need, budget left
C23_Witness ==
    /\ Done
    /\ run.budget > 0
    /\ Len(run.scored) >= 2
    /\ run.scored[1].hoursNeeded >= 2
    /\ HoursOf(plan, run.scored[1].t.id) = run.scored[1].hoursNeeded

----------------------------------------------------------------------------
(* C24  One entry per task and day                                         *)

\* the score of the task with this id
ScoreOfId(id) == scoreTask(tasks[CHOOSE k \in 1..Len(tasks) : tasks[k].id = id])

\* C24: a day never holds two entries with the same task id; the entries of
\* a task hold, together, the hours placed for it, and an entry's score is
\* the score of its task (the maximum of the scores merged into it); a
\* placement adds an entry to the cursor's day if the day has none for the
\* task and otherwise adds its hour to that entry.
C24_OneEntryPerTaskAndDay ==
    [][ /\ \A d \in 1..Len(run'.days) :
              \A j, k \in 1..Len(run'.days[d].entries) :
                  j # k => run'.days[d].entries[j].taskId # run'.days[d].entries[k].taskId
        /\ \A e \in AllEntries(run'.days) : e.score = ScoreOfId(e.taskId)
        /\ \A k \in 1..Len(run'.scored) :
              HoursOf(run'.days, run'.scored[k].t.id)
                  = GetOr0(run'.allocatedByTask, run'.scored[k].t.id)
        /\ AllocChunk =>
              LET d == run.dayCursor + 1
                  id == run.scored[run.item].t.id
                  before == run.days[d].entries
                  after == run'.days[d].entries
                  at == {j \in 1..Len(before) : before[j].taskId = id}
              IN IF at = {}
                 THEN /\ Len(after) = Len(before) + 1
                      /\ after[Len(after)].taskId = id
                      /\ after[Len(after)].hours = 1
                 ELSE /\ Len(after) = Len(before)
                      /\ \A j \in 1..Len(before) :
                            after[j].hours = before[j].hours + (IF j \in at THEN 1 ELSE 0) ]_vars

\* a day on which a task's hours were merged, next to another task's entry
C24_Witness ==
    /\ Done
    /\ \E d \in 1..Len(plan) :
          /\ Len(plan[d].entries) = 2
          /\ plan[d].entries[1].hours >= 3

----------------------------------------------------------------------------
(* C25  totalHours of a day                                                *)

\* C25: after every placement and in the returned plan, each day's
\* totalHours is the sum of the hours of its entries, and every entry has
\* at least 1 hour.
C25_TotalHoursIsSumOfEntries ==
    /\ WellFormed(run.days)
    /\ WellFormed(plan)
    /\ \A e \in AllEntries(run.days) \cup AllEntries(plan) : e.hours >= 1

\* a day with two entries, one of them merged
C25_Witness ==
    /\ Done
    /\ \E d \in 1..Len(plan) :
          /\ Len(plan[d].entries) = 2
          /\ plan[d].entries[2].hours >= 2
          /\ plan[d].totalHours >= 3

----------------------------------------------------------------------------
(* C26  Order of a day's entries                                           *)

\* C26: in the returned plan the entries of every day are in descending
\* order of score.
C26_EntriesSortedByScore ==
    Done =>
        \A d \in 1..Len(plan) :
            \A j, k \in 1..Len(plan[d].entries) :
                j < k => ~FracLess(plan[d].entries[j].score, plan[d].entries[k].score)

\* on the second day of the ring the second-ranked task was placed first
\* (its reserved hour) and the first-ranked task later: the first-ranked
\* task's entry comes first
C26_Witness ==
    /\ Done
    /\ Len(plan) >= 3
    /\ Len(run.scored) >= 2
    /\ FracLess(run.scored[2].s, run.scored[1].s)
    /\ HoursOf(plan, run.scored[2].t.id) >= 1
    /\ Len(plan[2].entries) >= 2
    /\ plan[2].entries[1].taskId = run.scored[1].t.id

----------------------------------------------------------------------------
(* C27  Work conservation                                                  *)

\* sum of hoursNeeded over the active tasks that are overdue (TRUE) or not
NeedWhere(overdue) ==
    SumSeq([k \in 1..Len(tasks) |->
        IF IsActive(tasks[k]) /\ (DuePast(tasks[k]) <=> overdue)
        THEN Need(tasks[k]) ELSE 0])

\* C27: the hours allocated are min(budget, nonOverdueNeed +
\* min(overdueCap, overdueNeed)), the cap being floor(budget * 0.6) with
\* capping enabled and absent otherwise.
C27_WorkConserving ==
    Done =>
        LET overduePart == IF capOverdue
                           THEN Min(SixtyPercent, NeedWhere(TRUE))
                           ELSE NeedWhere(TRUE)
        IN TotalHours(plan) = Min(RoundedBudget, NeedWhere(FALSE) + overduePart)

\* capping enabled: an overdue task held at the cap ranks before a task that
\* is not overdue and is filled completely; budget is left over
C27_Witness ==
    /\ Done
    /\ capOverdue
    /\ run.budget > 0
    /\ NeedWhere(FALSE) >= 2
    /\ NeedWhere(TRUE) > SixtyPercent
    /\ SixtyPercent >= 1
    /\ run.scored[1].overdue
    /\ TotalHours(plan) = NeedWhere(FALSE) + SixtyPercent

----------------------------------------------------------------------------
(* C28  Priority in the fill pass                                          *)

----------------------------------------------------------------------------
(* C29: after any sequence of study-day toggles, preset clicks and         *)
(* settings snapshots the component's studyDays holds at least one day,    *)
(* every one of them a weekday index 0..6; the toggle of the only enabled  *)
(* day returns the state unchanged; and an activation of the effect lays   *)
(* out one plan day per enabled day, never the whole-week fallback for an  *)
(* empty list.                                                             *)

C29_StudyDaysNeverEmpty ==
    /\ Len(studyDays) > 0
    /\ \A k \in 1..Len(studyDays) : studyDays[k] \in 0..6
    /\ Len(studyDays) = 1 => toggleDay(studyDays, studyDays[1]) = studyDays
    /\ Started =>
          /\ Len(run.days) = Len(studyDays)
          /\ Len(run.days) >= 1

\* Saturday is the only enabled day, which only toggles reach: the stored
\* day 2 was joined by day 5 and then switched off
C29_Witness ==
    /\ Done
    /\ studyDays = <<5>>
    /\ Len(plan) = 1

----------------------------------------------------------------------------
(* SpecStatus: the Start / Reset / Done buttons of the plan entries.       *)
(* setTaskStatus is an async function: the part before await updateDoc     *)
(* runs in the click handler, the part after it runs when the write        *)
(* resolves or rejects, and any number of calls can be suspended at the    *)
(* await at once.  The settings keep their initial values here.            *)

\* calls of setTaskStatus suspended at the await at the same time
MaxWrites == 2

TaskStatuses == {"not_started", "in_progress", "done"}

\* seq without its k-th element
RemoveAt(seq, k) == SubSeq(seq, 1, k - 1) \o SubSeq(seq, k + 1, Len(seq))

\* prev.map(t => t.id === taskId && t.courseId === courseId ? {...t, status} : t)
\* (a task id is unique, so the course id adds nothing to the match)
withStatus(prev, taskId, status) ==
    [k \in 1..Len(prev) |->
        IF prev[k].id = taskId THEN [prev[k] EXCEPT !.status = status]
        ELSE prev[k]]

\* a click on an enabled button of a plan entry: setTaskStatus up to the await
ClickStatus ==
    /\ run.pc = "done"
    /\ Len(writes) < MaxWrites
    /\ \E e \in AllEntries(plan), status \in TaskStatuses :
        /\ busyTask # <<e.taskId>>
        /\ busyTask' = <<e.taskId>>
        /\ writes' = Append(writes, [taskId |-> e.taskId, status |-> status])
    /\ UNCHANGED <<tasks, hoursPerWeek, studyDays, capOverdue, plan,
                   loadAllPending, run>>

\* updateDoc resolved: setTasks, then the finally block
WriteSucceeds ==
    /\ run.pc = "done"
    /\ \E k \in 1..Len(writes) :
        /\ tasks' = withStatus(tasks, writes[k].taskId, writes[k].status)
        /\ writes' = RemoveAt(writes, k)
    /\ busyTask' = <<>>
    /\ run' = Rerun
    /\ UNCHANGED <<hoursPerWeek, studyDays, capOverdue, plan, loadAllPending>>

\* updateDoc rejected: only the finally block
WriteFails ==
    /\ run.pc = "done"
    /\ \E k \in 1..Len(writes) : writes' = RemoveAt(writes, k)
    /\ busyTask' = <<>>
    /\ UNCHANGED <<tasks, hoursPerWeek, studyDays, capOverdue, plan,
                   loadAllPending, run>>

NextStatus ==
    \/ EffectStep
    \/ LoadAllDone
    \/ ClickStatus
    \/ WriteSucceeds
    \/ WriteFails

SpecStatus == Init /\ [][NextStatus]_vars

\* the status of some loaded task differs after the step
StatusChanged ==
    /\ Len(tasks') = Len(tasks)
    /\ \E k \in 1..Len(tasks) : tasks'[k].status # tasks[k].status

\* a suspended write left the await in this step and the local tasks now
\* carry its status
WriteApplied ==
    \E k \in 1..Len(writes) :
        /\ writes' = RemoveAt(writes, k)
        /\ tasks' = withStatus(tasks, writes[k].taskId, writes[k].status)

(* C30: while a setTaskStatus write for a task is in flight, busyTask is   *)
(* that task, whatever other status writes start or complete meanwhile;    *)
(* and the status of a local task changes only in the step in which a      *)
(* write for it has succeeded.                                             *)

C30_BusyWhileWriteInFlight ==
    [][/\ \A k \in 1..Len(writes') : busyTask' = <<writes'[k].taskId>>
       /\ StatusChanged => WriteApplied]_vars

\* the part of C30 the code keeps: outside a reload of the task list, a
\* local status changes only when a write for it has succeeded
C30_StatusChangesOnlyOnSuccess ==
    [][StatusChanged /\ ~LoadAllDone => WriteApplied]_vars

\* the single busyTask slot: a write in flight whose task is not busyTask
C30_InFlightButNotBusy ==
    \E k \in 1..Len(writes) : busyTask # <<writes[k].taskId>>

====
